---------------------------- MODULE Spec2Model ----------------------------
(***************************************************************************)
(* Model of app.py, the royalty-flow explorer: load_json, the page script  *)
(* (sidebar selectors, breadcrumb, rights lookup, usage explainer, rights  *)
(* details), generate_flowchart, get_rights_data, create_rights_table and  *)
(* display_rights_details.                                                 *)
(*                                                                         *)
(* Three specifications share the variables:                               *)
(*   Spec       one run of the page script over a loaded file              *)
(*   SpecFlow   generate_flowchart, one loop iteration per step            *)
(*   SpecTable  get_rights_data followed by create_rights_table            *)
(***************************************************************************)
EXTENDS Integers, Sequences, FiniteSets, TLC

VARIABLES
    file,             \* what royalties.json holds on disk
    ROYALTY_DATA,     \* module global set by load_json()
    errors,           \* messages passed to st.error, in order
    pc,               \* position in the script / function
    fault,            \* the unhandled exception, if any
    category, subcategory, platform, region, role,   \* widget values
    heading,          \* breadcrumb pieces passed to st.markdown
    rights,           \* rights mapping handed to generate_flowchart
    G, node_positions, node_colors, i,               \* generate_flowchart locals
    drawn,            \* TRUE once nx.draw / st.pyplot ran
    usage_key, usage_text,
    master_list, publishing_list,
    shown,            \* output of display_rights_details
    data_list, rights_of_interest, df                \* create_rights_table

vars == << file, ROYALTY_DATA, errors, pc, fault, category, subcategory,
           platform, region, role, heading, rights, G, node_positions,
           node_colors, i, drawn, usage_key, usage_text, master_list,
           publishing_list, shown, data_list, rights_of_interest, df >>

---------------------------------------------------------------------------
(* JSON values.  Every value has the same record shape so that values of   *)
(* different kinds can sit in one set: t is the Python type, s the text of *)
(* a scalar, items the (key, value) pairs of a dict in insertion order.    *)

Val(t, s) == [t |-> t, s |-> s, items |-> << >>]
Str(s) == Val("str", s)
Dict(items) == [t |-> "dict", s |-> "", items |-> items]
Item(k, v) == [k |-> k, v |-> v]
EmptyDict == Dict(<< >>)

\* Python's None as a widget value (st.selectbox / st.radio with no options).
None == "<None>"

IsDict(v) == v.t = "dict"
Range(seq) == {seq[n] : n \in 1..Len(seq)}
Keys(d) == [n \in 1..Len(d.items) |-> d.items[n].k]
Has(d, k) == \E n \in 1..Len(d.items) : d.items[n].k = k
Lookup(d, k) == d.items[CHOOSE n \in 1..Len(d.items) : d.items[n].k = k].v

\* The outcome of an expression: a value, or the exception it raised.
Ok(v) == [err |-> "", v |-> v]
Raise(e) == [err |-> e, v |-> EmptyDict]

\* r[k]
Index(r, k) ==
    IF r.err # "" THEN r
    ELSE IF ~IsDict(r.v) THEN Raise("TypeError")
    ELSE IF ~Has(r.v, k) THEN Raise("KeyError")
    ELSE Ok(Lookup(r.v, k))

\* r.get(k, default)
DotGet(r, k, default) ==
    IF r.err # "" THEN r
    ELSE IF ~IsDict(r.v) THEN Raise("AttributeError")
    ELSE IF Has(r.v, k) THEN Ok(Lookup(r.v, k))
    ELSE Ok(default)

\* [key for key, value in r.items() if isinstance(value, dict)]
DictKeys(d) == SelectSeq(Keys(d), LAMBDA k : IsDict(Lookup(d, k)))

\* What st.selectbox / st.radio returns: one of the options, None without any.
Choices(options) == IF options = << >> THEN {None} ELSE Range(options)

---------------------------------------------------------------------------
(* str.lower(), str.strip() and str.startswith on the strings of the       *)
(* model; every string not listed is left as it is by the operation.       *)

Lower(s) ==
    CASE s = "US" -> "us"
      [] s = "International" -> "international"
      [] s = "UGC" -> "ugc"
      [] s = "PRO" -> "pro"
      [] s = "Label" -> "label"
      [] s = "Sync Fees" -> "sync fees"
      [] s = "Mechanical Rights" -> "mechanical rights"
      [] s = "Recording Revenues" -> "recording revenues"
      [] s = "Neighboring Rights" -> "neighboring rights"
      [] s = "Performance Rights" -> "performance rights"
      [] OTHER -> s

Strip(s) ==
    CASE s = " " -> ""
      [] s = " Label " -> "Label"
      [] OTHER -> s

\* s.replace(" ", "_")
ReplaceSpaces(s) ==
    CASE s = "sync fees" -> "sync_fees"
      [] s = "mechanical rights" -> "mechanical_rights"
      [] s = "recording revenues" -> "recording_revenues"
      [] s = "neighboring rights" -> "neighboring_rights"
      [] s = "performance rights" -> "performance_rights"
      [] s = " " -> "_"
      [] s = " Label " -> "_Label_"
      [] OTHER -> s

\* The cross mark that create_rights_table treats as "not collected".
CrossMark == "(x)"
StartsWithCross(s) == s \in {CrossMark, CrossMark \o " Not collected"}

friendly_text(key) ==
    LET k == Lower(key) IN
    CASE k = "interactive_dsp" -> "Interactive DSP"
      [] k = "traditional_digital" -> "Traditional Digital"
      [] k = "non_interactive_services" -> "Non-Interactive Services"
      [] k = "digital_downloads" -> "Digital Downloads"
      [] k = "ugc" -> "User-Generated Content"
      [] k = "non_digital" -> "Non-Digital"
      [] k = "artist_label" -> "Artist/Label"
      [] k = "writer_publisher" -> "Writer/Publisher"
      [] k = "us" -> "US"
      [] k = "international" -> "International"
      [] k = "recording_revenues" -> "Recording Revenues"
      [] k = "neighboring_rights" -> "Neighboring Rights"
      [] k = "performance" -> "Performance Rights"
      [] k = "mechanical" -> "Mechanical Rights"
      [] k = "sync_fees" -> "Sync Fees"
      [] k = "broadcast_radio_tv" -> "Broadcast Radio & TV"
      [] k = "restaurants_bars_venues" -> "Restaurants, Bars & Venues"
      [] k = "live_performances" -> "Live Performances"
      [] k = "physical_sales" -> "Physical Sales"
      [] k = "organic" -> "Organic"
      [] k = "official_library" -> "Official Library"
      [] k = "youtube" -> "YouTube"
      [] k = "meta" -> "Meta"
      [] k = "tiktok" -> "TikTok"
      [] k = "snapchat" -> "Snapchat"
      [] k = "twitch" -> "Twitch"
      [] OTHER -> key

---------------------------------------------------------------------------
(* load_json: what the file holds decides the outcome.                     *)

FileNotFoundMsg == "Error: royalties.json file not found. Ensure it's in the correct directory."
InvalidJsonMsg == "Error: royalties.json contains invalid JSON formatting."
NotADictMsg == "Invalid JSON structure: Expected a dictionary at the root."

\* load_json without the isinstance check of line 17: whatever parses is returned.
load_json_NoRootCheck(f) ==
    CASE f.kind = "missing" ->
           [data |-> EmptyDict, errors |-> << FileNotFoundMsg >>, err |-> ""]
      [] f.kind = "invalid" ->
           [data |-> EmptyDict, errors |-> << InvalidJsonMsg >>, err |-> ""]
      [] f.kind = "unreadable" ->
           [data |-> EmptyDict, errors |-> << >>, err |-> "PermissionError"]
      [] OTHER -> [data |-> f.root, errors |-> << >>, err |-> ""]

\* f.kind: "missing" (open raises FileNotFoundError), "unreadable" (open
\* raises PermissionError), "invalid" (json.load raises JSONDecodeError),
\* "json" (json.load returns f.root).
load_json(f) ==
    CASE f.kind = "missing" ->
           [data |-> EmptyDict, errors |-> << FileNotFoundMsg >>, err |-> ""]
      [] f.kind = "invalid" ->
           [data |-> EmptyDict, errors |-> << InvalidJsonMsg >>, err |-> ""]
      [] f.kind = "unreadable" ->
           [data |-> EmptyDict, errors |-> << >>, err |-> "PermissionError"]
      [] OTHER ->
           IF ~IsDict(f.root)
           THEN [data |-> EmptyDict, errors |-> << NotADictMsg >>, err |-> ""]
           ELSE [data |-> f.root, errors |-> << >>, err |-> ""]

---------------------------------------------------------------------------
(* generate_flowchart                                                      *)

x_offset == 2
y_offset == 2
source_color == "lightblue"
not_applicable_color == "red"

\* details.get(name, "").strip()
StrippedField(details, name) ==
    IF Has(details, name) THEN Strip(Lookup(details, name).s) ELSE ""

\* The marker read by its truth value, as create_rights_table reads it.
IsNotApplicable_Truthy(details) ==
    Has(details, "fully_not_applicable") /\ Lookup(details, "fully_not_applicable").s # ""

\* Line 102
IsNotApplicable(details) == Has(details, "fully_not_applicable")

\* The payee without the fallback to the role.
PayeeLabel_NoFallback(details, rl) == StrippedField(details, "payee")

\* Lines 101, 104-105
PayeeLabel(details, rl) ==
    LET payee == StrippedField(details, "payee") IN
    IF payee = "" THEN rl ELSE payee

\* The midpoint without the division by two.
MidY_NoHalving(rts) == -((Len(rts.items) - 1) * y_offset)

\* -((num_rights - 1) * y_offset) / 2 ; the product is even, the division exact
MidY(rts) == -(((Len(rts.items) - 1) * y_offset) \div 2)

\* Lines 79-93: the empty graph with the source node.
FlowStart(source, rts) ==
    [G |-> [nodes |-> {source}, edges |-> {}],
     node_positions |-> (source :> << 0, MidY(rts) >>),
     node_colors |-> (source :> source_color)]

AddNode(g, n) == [g EXCEPT !.nodes = @ \cup {n}]
\* nx.DiGraph.add_edge adds both endpoints as nodes
AddEdge(g, a, b) == [nodes |-> g.nodes \cup {a, b}, edges |-> g.edges \cup {<< a, b >>}]
Put(f, k, v) == (k :> v) @@ f

\* The collector placed without a colour.
FlowApplicable_NoCollectorColor(st, right, collected_by, payee, right_y, mid_y) ==
    LET collected_by_x == x_offset + x_offset
        payee_x == collected_by_x + x_offset
        s1 == IF collected_by # ""
              THEN [G |-> AddEdge(AddNode(st.G, collected_by), right, collected_by),
                    node_positions |-> Put(st.node_positions, collected_by,
                                           << collected_by_x, right_y >>),
                    node_colors |-> st.node_colors]
              ELSE st
    IN  IF payee # ""
        THEN [G |-> AddEdge(AddNode(s1.G, payee),
                            IF collected_by # "" THEN collected_by ELSE right, payee),
              node_positions |-> Put(s1.node_positions, payee, << payee_x, mid_y >>),
              node_colors |-> Put(s1.node_colors, payee, source_color)]
        ELSE s1

\* Lines 117-133: collector and payee of an applicable right.
FlowApplicable(st, right, collected_by, payee, right_y, mid_y) ==
    LET collected_by_x == x_offset + x_offset
        payee_x == collected_by_x + x_offset
        s1 == IF collected_by # ""
              THEN [G |-> AddEdge(AddNode(st.G, collected_by), right, collected_by),
                    node_positions |-> Put(st.node_positions, collected_by,
                                           << collected_by_x, right_y >>),
                    node_colors |-> Put(st.node_colors, collected_by, source_color)]
              ELSE st
    IN  IF payee # ""
        THEN [G |-> AddEdge(AddNode(s1.G, payee),
                            IF collected_by # "" THEN collected_by ELSE right, payee),
              node_positions |-> Put(s1.node_positions, payee, << payee_x, mid_y >>),
              node_colors |-> Put(s1.node_colors, payee, source_color)]
        ELSE s1

\* Lines 96-133: the body of the loop for the entry at 0-based index idx.
FlowIter(st, source, rl, idx, rts) ==
    LET right == rts.items[idx + 1].k
        details == rts.items[idx + 1].v
        collected_by == StrippedField(details, "collected_by")
        is_not_applicable == IsNotApplicable(details)
        payee == PayeeLabel(details, rl)
        right_x == x_offset
        right_y == -idx * y_offset
        s1 == [G |-> AddEdge(AddNode(st.G, right), source, right),
               node_positions |-> Put(st.node_positions, right, << right_x, right_y >>),
               node_colors |-> Put(st.node_colors, right,
                                   IF is_not_applicable THEN not_applicable_color
                                   ELSE source_color)]
    IN  IF ~IsDict(details) THEN st
        ELSE IF is_not_applicable THEN s1
        ELSE FlowApplicable(s1, right, collected_by, payee, right_y, MidY(rts))

RECURSIVE FlowLoop(_, _, _, _, _)
FlowLoop(st, source, rl, idx, rts) ==
    IF idx >= Len(rts.items) THEN st
    ELSE FlowLoop(FlowIter(st, source, rl, idx, rts), source, rl, idx + 1, rts)

\* Line 75: not isinstance(rights, dict) or not rights
NoRights(rts) == ~IsDict(rts) \/ rts.items = << >>

MissingRightsMsg(source, rg, rl) ==
    "Unexpected or missing rights data for " \o friendly_text(rl) \o " in "
    \o friendly_text(rg) \o " for " \o friendly_text(source) \o ". Skipping flowchart."

\* node_color=[node_colors[n] for n in G.nodes()] and pos=node_positions:
\* nx.draw needs a colour and a position for every node.
Drawable(st) ==
    /\ st.G.nodes \subseteq DOMAIN st.node_colors
    /\ st.G.nodes \subseteq DOMAIN st.node_positions

NoGraph == [G |-> [nodes |-> {}, edges |-> {}],
            node_positions |-> << >>, node_colors |-> << >>]

---------------------------------------------------------------------------
(* get_rights_data, create_rights_table, display_rights_details            *)

PyNone == Val("NoneType", "")

\* bool(v) for a JSON value
Truthy(v) ==
    CASE v.t = "str" -> v.s # ""
      [] v.t = "dict" -> v.items # << >>
      [] v.t = "NoneType" -> FALSE
      [] OTHER -> v.s \notin {"0", "0.0", "False"}

FieldOr(d, name, default) == IF Has(d, name) THEN Lookup(d, name) ELSE default

\* Lines 177-184
Entry(right_key, right_info) ==
    [Right |-> right_key,
     fully_not_applicable |-> FieldOr(right_info, "fully_not_applicable", PyNone),
     CollectedBy |-> FieldOr(right_info, "collected_by", Str("")),
     HowReceived |-> FieldOr(right_info, "how_it_is_received", Str("")),
     EstRate |-> FieldOr(right_info, "estimated_rate", Val("float", "0.0")),
     HowCalculated |-> FieldOr(right_info, "how_it_is_calculated", Str(""))]

\* Lines 174-184 for one role: the entries of the rights that are dicts.
RECURSIVE EntriesOf(_, _)
EntriesOf(role_data, n) ==
    IF n > Len(role_data.items) THEN << >>
    ELSE LET it == role_data.items[n] IN
         (IF IsDict(it.v) THEN << Entry(it.k, it.v) >> ELSE << >>)
         \o EntriesOf(role_data, n + 1)

\* Lines 171-188: entries of every role_key equal to rk, in iteration order.
RECURSIVE RoleEntries(_, _, _)
RoleEntries(data_node, rk, n) ==
    IF n > Len(data_node.items) THEN << >>
    ELSE LET it == data_node.items[n] IN
         (IF IsDict(it.v) /\ it.k = rk THEN EntriesOf(it.v, 1) ELSE << >>)
         \o RoleEntries(data_node, rk, n + 1)

\* Lines 159-164: the node the lists are built from.
RightsDataNode(data, area, usage_type, location, plat) ==
    IF Lower(area) = "ugc"
    THEN DotGet(DotGet(Index(Index(Ok(data), area), usage_type), plat, EmptyDict),
                location, EmptyDict)
    ELSE DotGet(DotGet(DotGet(Ok(data), area, EmptyDict), usage_type, EmptyDict),
                location, EmptyDict)

get_rights_data(data, area, usage_type, location, plat) ==
    LET none == [err |-> "", master |-> << >>, publishing |-> << >>]
        node == RightsDataNode(data, area, usage_type, location, plat)
    IN  IF Lower(area) = "ugc" /\ plat \in {None, ""} THEN none
        ELSE IF node.err # "" THEN [none EXCEPT !.err = node.err]
        ELSE IF ~IsDict(node.v) THEN none
        ELSE [err |-> "",
              master |-> RoleEntries(node.v, "artist_label", 1),
              publishing |-> RoleEntries(node.v, "writer_publisher", 1)]

Present == "(v)"
Absent == CrossMark

\* Lines 193-199
right_mapping ==
    [k \in {"recording_revenues", "neighboring_rights", "performance",
            "mechanical", "sync_fees"} |-> friendly_text(k)]

\* Line 201
RawKey(entry) == ReplaceSpaces(Lower(entry.Right))

\* The row looked up by the raw key, without the display text.
DisplayKey_Raw(entry) == RawKey(entry)

\* Line 202
DisplayKey(entry) ==
    LET raw_key == RawKey(entry) IN
    IF raw_key \in DOMAIN right_mapping THEN right_mapping[raw_key]
    ELSE friendly_text(raw_key)

\* Lines 203-206: does this entry set a row to the check mark?
Marks(entry) ==
    /\ ~Truthy(entry.fully_not_applicable)
    /\ Truthy(entry.CollectedBy)
    /\ ~StartsWithCross(entry.CollectedBy.s)

\* Lines 192, 200-206
RECURSIVE RightsStatus(_, _, _)
RightsStatus(status, dl, n) ==
    IF n > Len(dl) THEN status
    ELSE RightsStatus(IF Marks(dl[n])
                      THEN Put(status, DisplayKey(dl[n]), Present)
                      ELSE status,
                      dl, n + 1)

\* Lines 207-211: the DataFrame, one row per element of rights_of_interest.
create_rights_table(dl, roi) ==
    LET rights_status == RightsStatus([r \in Range(roi) |-> Absent], dl, 1)
    IN  [n \in 1..Len(roi) |-> [Rights |-> roi[n], Applicable |-> rights_status[roi[n]]]]

\* Lines 218-237: what is written for one entry.
DetailView(entry) ==
    IF Truthy(entry.fully_not_applicable)
    THEN [title |-> friendly_text(entry.Right),
          lines |-> << entry.fully_not_applicable.s >>]
    ELSE [title |-> friendly_text(entry.Right),
          lines |-> << entry.CollectedBy.s, entry.HowReceived.s,
                       entry.EstRate.s, entry.HowCalculated.s >>]

NoRightsDataMsg == "No rights data available for this section."

display_rights_details(dl) ==
    IF dl = << >>
    THEN << [title |-> NoRightsDataMsg, lines |-> << >>] >>
    ELSE [n \in 1..Len(dl) |-> DetailView(dl[n])]

---------------------------------------------------------------------------
(* The files the page is run over.                                         *)

AL == "artist_label"
WP == "writer_publisher"

DetailPRO ==
    Dict(<< Item("collected_by", Str("PRO")), Item("payee", Str("")),
            Item("how_it_is_received", Str("quarterly")),
            Item("estimated_rate", Val("float", "0.091")) >>)
DetailNA == Dict(<< Item("fully_not_applicable", Str("not tracked digitally")) >>)

RightsOne == Dict(<< Item("mechanical", DetailPRO) >>)
RightsTwo == Dict(<< Item("sync_fees", DetailNA), Item("mechanical", DetailPRO) >>)

RegionNodes ==
    { EmptyDict,
      Dict(<< Item(AL, RightsOne) >>),
      Dict(<< Item(AL, RightsTwo), Item(WP, RightsOne) >>),
      Dict(<< Item(AL, EmptyDict), Item(WP, RightsTwo) >>),
      Dict(<< Item(AL, Str("n/a")), Item(WP, RightsOne) >>) }

RegionKeys == {"us", "International", "canada"}

RegionSeqs ==
    {<< >>}
    \cup {<< Item(k, n) >> : k \in RegionKeys, n \in RegionNodes}
    \cup {<< Item("us", n1), Item("International", n2) >> :
             n1 \in RegionNodes, n2 \in RegionNodes}

Explainer(k) == Item(k, Str("About " \o k))

ExplainerSeqs ==
    { << >>,
      << Explainer("us_usage_explainer_artist_label") >>,
      << Explainer("us_usage_explainer_artist_label"),
         Explainer("int_usage_explainer_writer_publisher"),
         Explainer("canada_usage_explainer_artist_label") >>,
      << Explainer("international_usage_explainer_writer_publisher"),
         Explainer("usage_explainer_artist_label"),
         Explainer("usage_explainer") >> }

\* A source node (a platform node under ugc): regions and explainer texts.
SourceNodes == {Dict(e \o r) : e \in ExplainerSeqs, r \in RegionSeqs}

SomeSource == Dict(<< Item("us", Dict(<< Item(AL, RightsOne) >>)) >>)

Datasets ==
    {Dict(<< Item("interactive_dsp", Dict(<< Item("spotify", sn) >>)) >>) :
        sn \in SourceNodes}
    \cup {Dict(<< Item("ugc", Dict(<< Item("organic",
                 Dict(<< Item("youtube", sn) >>)) >>)) >>) : sn \in SourceNodes}
    \cup { EmptyDict,
           Dict(<< Item("interactive_dsp", EmptyDict) >>),
           Dict(<< Item("interactive_dsp", Str("soon")) >>),
           Dict(<< Item("ugc", Dict(<< Item("organic",
                 Dict(<< Item("note", Str("soon")) >>)) >>)) >>),
           Dict(<< Item("UGC", Dict(<< Item("organic",
                 Dict(<< Item("youtube", SomeSource) >>)) >>)) >>),
           Dict(<< Item("non_digital", Dict(<< Item("physical_sales", SomeSource),
                                                Item("live_performances", SomeSource) >>)),
                   Item("ugc", Dict(<< Item("organic",
                       Dict(<< Item("youtube", SomeSource),
                               Item("tiktok", SomeSource) >>)) >>)) >>) }

NonDictRoots == {Val("list", "[]"), Str("royalties"), Val("int", "7"), PyNone}

File(kind, root) == [kind |-> kind, root |-> root]

Files ==
    {File(k, EmptyDict) : k \in {"missing", "invalid", "unreadable"}}
    \cup {File("json", r) : r \in Datasets \cup NonDictRoots}

LoadErrorKinds == {"missing", "invalid"}
\* The three load-error conditions of load_json.
IsLoadError(f) == f.kind \in LoadErrorKinds \/ (f.kind = "json" /\ ~IsDict(f.root))

---------------------------------------------------------------------------
(* The page script                                                         *)

NoFault == [err |-> "", line |-> 0]
NoUsageExplainer == Str("No usage explainer available.")

sel == << category, subcategory, platform, region, role >>
flow == << G, node_positions, node_colors, i, drawn >>
tab == << data_list, rights_of_interest, df >>
texts == << heading, usage_key, usage_text >>
lists == << master_list, publishing_list, shown >>

Crash(e, ln) == pc' = "crashed" /\ fault' = [err |-> e, line |-> ln]

IsUgc == Lower(category) = "ugc"

InitPage ==
    /\ file \in Files
    /\ ROYALTY_DATA = EmptyDict
    /\ errors = << >>
    /\ pc = "load"
    /\ fault = NoFault
    /\ category = None /\ subcategory = None /\ platform = None
    /\ region = None /\ role = None
    /\ heading = << >>
    /\ rights = EmptyDict
    /\ G = NoGraph.G /\ node_positions = << >> /\ node_colors = << >>
    /\ i = 0 /\ drawn = FALSE
    /\ usage_key = "" /\ usage_text = Str("")
    /\ master_list = << >> /\ publishing_list = << >> /\ shown = << >>
    /\ data_list = << >> /\ rights_of_interest = << >> /\ df = << >>

\* Line 28: ROYALTY_DATA = load_json()
Load ==
    /\ pc = "load"
    /\ LET r == load_json(file) IN
       IF r.err # ""
       THEN Crash(r.err, 15) /\ UNCHANGED << ROYALTY_DATA, errors >>
       ELSE /\ ROYALTY_DATA' = r.data
            /\ errors' = r.errors
            /\ pc' = "category"
            /\ UNCHANGED fault
    /\ UNCHANGED << file, sel, rights, flow, texts, lists, tab >>

\* Line 244
SelectCategory ==
    /\ pc = "category"
    /\ category' \in Choices(Keys(ROYALTY_DATA))
    /\ pc' = "source"
    /\ UNCHANGED << file, ROYALTY_DATA, errors, fault, subcategory, platform,
                    region, role, rights, flow, texts, lists, tab >>

\* Line 245
SelectSource ==
    /\ pc = "source"
    /\ LET r == Index(Ok(ROYALTY_DATA), category) IN
       IF r.err # "" THEN Crash(r.err, 245) /\ UNCHANGED subcategory
       ELSE IF ~IsDict(r.v) THEN Crash("AttributeError", 245) /\ UNCHANGED subcategory
       ELSE /\ subcategory' \in Choices(Keys(r.v))
            /\ pc' = IF IsUgc THEN "platform" ELSE "region"
            /\ UNCHANGED fault
    /\ UNCHANGED << file, ROYALTY_DATA, errors, category, platform, region, role,
                    rights, flow, texts, lists, tab >>

SourceNode == Index(Index(Ok(ROYALTY_DATA), category), subcategory)

\* Lines 250-251
SelectPlatform ==
    /\ pc = "platform"
    /\ LET r == SourceNode IN
       IF r.err # "" THEN Crash(r.err, 250) /\ UNCHANGED platform
       ELSE IF ~IsDict(r.v) THEN Crash("AttributeError", 250) /\ UNCHANGED platform
       ELSE /\ platform' \in Choices(DictKeys(r.v))
            /\ pc' = "region"
            /\ UNCHANGED fault
    /\ UNCHANGED << file, ROYALTY_DATA, errors, category, subcategory, region, role,
                    rights, flow, texts, lists, tab >>

\* The node one level above the regions: the platform under ugc, else the source.
RegionParent == IF IsUgc THEN Index(SourceNode, platform) ELSE SourceNode

\* Lines 252-253 (ugc) and 257-258
SelectRegion ==
    /\ pc = "region"
    /\ LET r == RegionParent
           ln == IF IsUgc THEN 252 ELSE 257 IN
       IF r.err # "" THEN Crash(r.err, ln) /\ UNCHANGED region
       ELSE IF ~IsDict(r.v) THEN Crash("AttributeError", ln) /\ UNCHANGED region
       ELSE /\ region' \in Choices(DictKeys(r.v))
            /\ pc' = "role"
            /\ UNCHANGED fault
    /\ UNCHANGED << file, ROYALTY_DATA, errors, category, subcategory, platform, role,
                    rights, flow, texts, lists, tab >>

RegionNode == Index(RegionParent, region)

\* Lines 255 (ugc) and 259-264
SelectRole ==
    /\ pc = "role"
    /\ IF IsUgc
       THEN LET r == RegionNode IN
            IF r.err # "" THEN Crash(r.err, 255) /\ UNCHANGED role
            ELSE /\ role' \in Choices(Keys(r.v))
                 /\ pc' = "breadcrumb"
                 /\ UNCHANGED fault
       ELSE /\ role' \in {AL, WP}
            /\ pc' = "breadcrumb"
            /\ UNCHANGED fault
    /\ UNCHANGED << file, ROYALTY_DATA, errors, category, subcategory, platform, region,
                    rights, flow, texts, lists, tab >>

\* Lines 267-270
Breadcrumb ==
    /\ pc = "breadcrumb"
    /\ LET parts == IF IsUgc THEN << subcategory, platform, region, role >>
                    ELSE << subcategory, region, role >> IN
       IF None \in Range(parts)
       THEN Crash("AttributeError", IF IsUgc THEN 268 ELSE 270) /\ UNCHANGED heading
       ELSE /\ heading' = [n \in 1..Len(parts) |-> friendly_text(parts[n])]
            /\ pc' = "diagram"
            /\ UNCHANGED fault
    /\ UNCHANGED << file, ROYALTY_DATA, errors, sel, rights, flow, usage_key,
                    usage_text, lists, tab >>

\* Lines 274 (ugc) and 277: the rights handed to generate_flowchart.
RightsLookup ==
    IF IsUgc THEN DotGet(RegionNode, role, EmptyDict) ELSE Index(RegionNode, role)

\* Lines 273-278, with the whole of generate_flowchart (lines 74-151).
Diagram ==
    /\ pc = "diagram"
    /\ LET r == RightsLookup
           st == FlowLoop(FlowStart(subcategory, r.v), subcategory, role, 0, r.v) IN
       IF r.err # ""
       THEN Crash(r.err, IF IsUgc THEN 274 ELSE 277) /\ UNCHANGED << errors, rights, flow >>
       ELSE IF NoRights(r.v)
       THEN /\ errors' = Append(errors, MissingRightsMsg(subcategory, region, role))
            /\ rights' = r.v
            /\ pc' = "explainer"
            /\ UNCHANGED << fault, flow >>
       ELSE IF ~Drawable(st)
       THEN Crash("KeyError", 142) /\ UNCHANGED << errors, rights, flow >>
       ELSE /\ rights' = r.v
            /\ G' = st.G
            /\ node_positions' = st.node_positions
            /\ node_colors' = st.node_colors
            /\ i' = Len(r.v.items)
            /\ drawn' = TRUE
            /\ pc' = "explainer"
            /\ UNCHANGED << fault, errors >>
    /\ UNCHANGED << file, ROYALTY_DATA, sel, texts, lists, tab >>

\* The key without the "int" abbreviation of line 287.
UsageKey_NoAbbreviation(rg, rl) ==
    IF Lower(rg) = "us" THEN "us_usage_explainer_" \o rl
    ELSE Lower(rg) \o "_usage_explainer_" \o rl

\* Lines 284-289
UsageKey(rg, rl) ==
    IF Lower(rg) = "us" THEN "us_usage_explainer_" \o rl
    ELSE IF Lower(rg) = "international" THEN "int_usage_explainer_" \o rl
    ELSE Lower(rg) \o "_usage_explainer_" \o rl

\* Lines 291-295
UsageText(key) == DotGet(RegionParent, key, NoUsageExplainer)

\* Lines 284-297
UsageExplainer ==
    /\ pc = "explainer"
    /\ LET key == UsageKey(region, role)
           r == UsageText(key) IN
       IF r.err # ""
       THEN Crash(r.err, IF IsUgc THEN 293 ELSE 295) /\ UNCHANGED << usage_key, usage_text >>
       ELSE /\ usage_key' = key
            /\ usage_text' = r.v
            /\ pc' = "details"
            /\ UNCHANGED fault
    /\ UNCHANGED << file, ROYALTY_DATA, errors, sel, rights, flow, heading, lists, tab >>

\* Lines 300-308
Details ==
    /\ pc = "details"
    /\ LET r == get_rights_data(ROYALTY_DATA, category, subcategory, region,
                                IF IsUgc THEN platform ELSE None) IN
       IF r.err # ""
       THEN Crash(r.err, IF IsUgc THEN 162 ELSE 164) /\ UNCHANGED lists
       ELSE /\ master_list' = r.master
            /\ publishing_list' = r.publishing
            /\ shown' = IF role = AL THEN display_rights_details(r.master)
                        ELSE IF role = WP THEN display_rights_details(r.publishing)
                        ELSE << >>
            /\ pc' = "done"
            /\ UNCHANGED fault
    /\ UNCHANGED << file, ROYALTY_DATA, errors, sel, rights, flow, texts, tab >>

\* A widget change reruns the script from the top; load_json is cached
\* (line 12) and its reported error is replayed with the cached value.
Rerun ==
    /\ pc \in {"done", "crashed"}
    /\ fault.line # 15
    /\ pc' = "category"
    /\ fault' = NoFault
    /\ errors' = load_json(file).errors
    /\ category' = None /\ subcategory' = None /\ platform' = None
    /\ region' = None /\ role' = None
    /\ heading' = << >>
    /\ rights' = EmptyDict
    /\ G' = NoGraph.G /\ node_positions' = << >> /\ node_colors' = << >>
    /\ i' = 0 /\ drawn' = FALSE
    /\ usage_key' = "" /\ usage_text' = Str("")
    /\ master_list' = << >> /\ publishing_list' = << >> /\ shown' = << >>
    /\ UNCHANGED << file, ROYALTY_DATA, tab >>

Next ==
    \/ Load
    \/ SelectCategory
    \/ SelectSource
    \/ SelectPlatform
    \/ SelectRegion
    \/ SelectRole
    \/ Breadcrumb
    \/ Diagram
    \/ UsageExplainer
    \/ Details
    \/ Rerun

Spec == InitPage /\ [][Next]_vars

---------------------------------------------------------------------------
(* generate_flowchart on its own, one loop iteration per step.             *)

MaxRights == 2

FlowSources == {"broadcast_radio_tv", "sync_fees"}
FlowRoles == {AL, WP, ""}
RightNames == {"mechanical", "sync_fees", "performance"}

FlowDetails ==
    { Dict(<< Item("collected_by", Str("PRO")), Item("payee", Str("")) >>),
      Dict(<< Item("collected_by", Str("")), Item("payee", Str("Label")) >>),
      Dict(<< Item("collected_by", Str("PRO")), Item("payee", Str("Label")) >>),
      Dict(<< Item("fully_not_applicable", Str("not tracked digitally")) >>),
      Dict(<< Item("fully_not_applicable", Str("")),
              Item("collected_by", Str("PRO")), Item("payee", Str("Label")) >>),
      Dict(<< Item("collected_by", Str(" ")), Item("payee", Str(" Label ")) >>),
      Dict(<< Item("collected_by", Str("Label")), Item("payee", Str("Label")) >>),
      Dict(<< Item("collected_by", Str("sync_fees")) >>),
      EmptyDict,
      Str("n/a") }

\* Sequences of 1..n items with distinct keys.
RECURSIVE ItemSeqs(_, _, _)
ItemSeqs(names, values, n) ==
    IF n = 0 THEN {<< >>}
    ELSE LET shorter == ItemSeqs(names, values, n - 1) IN
         shorter \cup
         {Append(q, Item(k, v)) :
            q \in {x \in shorter : Len(x) = n - 1},
            k \in names, v \in values} 

DistinctKeys(q) == \A a, b \in 1..Len(q) : a # b => q[a].k # q[b].k

FlowRights ==
    {Dict(q) : q \in {x \in ItemSeqs(RightNames, FlowDetails, MaxRights) : DistinctKeys(x)}}
    \cup {Str("n/a")}

InitFlow ==
    /\ file = File("json", EmptyDict)
    /\ ROYALTY_DATA = EmptyDict
    /\ errors = << >>
    /\ pc = "flow_start"
    /\ fault = NoFault
    /\ category = "non_digital" /\ platform = None
    /\ subcategory \in FlowSources
    /\ region = "us"
    /\ role \in FlowRoles
    /\ heading = << >>
    /\ rights \in FlowRights
    /\ G = NoGraph.G /\ node_positions = << >> /\ node_colors = << >>
    /\ i = 0 /\ drawn = FALSE
    /\ usage_key = "" /\ usage_text = Str("")
    /\ master_list = << >> /\ publishing_list = << >> /\ shown = << >>
    /\ data_list = << >> /\ rights_of_interest = << >> /\ df = << >>

rest == << file, ROYALTY_DATA, sel, heading, usage_key, usage_text, lists, tab >>

\* Lines 75-93
FlowEnter ==
    /\ pc = "flow_start"
    /\ IF NoRights(rights)
       THEN /\ errors' = Append(errors, MissingRightsMsg(subcategory, region, role))
            /\ pc' = "flow_skipped"
            /\ UNCHANGED << G, node_positions, node_colors >>
       ELSE LET st == FlowStart(subcategory, rights) IN
            /\ G' = st.G
            /\ node_positions' = st.node_positions
            /\ node_colors' = st.node_colors
            /\ pc' = "flow_loop"
            /\ UNCHANGED errors
    /\ UNCHANGED << rest, rights, fault, i, drawn >>

\* Lines 96-133: one iteration; i counts the entries already visited.
FlowStep ==
    /\ pc = "flow_loop"
    /\ i < Len(rights.items)
    /\ LET st == FlowIter([G |-> G, node_positions |-> node_positions,
                           node_colors |-> node_colors],
                          subcategory, role, i, rights) IN
       /\ G' = st.G
       /\ node_positions' = st.node_positions
       /\ node_colors' = st.node_colors
    /\ i' = i + 1
    /\ UNCHANGED << rest, rights, errors, fault, pc, drawn >>

\* Lines 135-151
FlowDraw ==
    /\ pc = "flow_loop"
    /\ i = Len(rights.items)
    /\ IF Drawable([G |-> G, node_positions |-> node_positions,
                    node_colors |-> node_colors])
       THEN drawn' = TRUE /\ pc' = "flow_drawn" /\ UNCHANGED fault
       ELSE Crash("KeyError", 142) /\ UNCHANGED drawn
    /\ UNCHANGED << rest, rights, errors, G, node_positions, node_colors, i >>

NextFlow ==
    \/ FlowEnter
    \/ FlowStep
    \/ FlowDraw

SpecFlow == InitFlow /\ [][NextFlow]_vars

---------------------------------------------------------------------------
(* get_rights_data followed by create_rights_table.                        *)

MaxEntries == 2

TableRightNames == {"mechanical", "Sync Fees", "custom_right"}

TableDetails ==
    { Dict(<< Item("collected_by", Str("PRO")) >>),
      Dict(<< Item("collected_by", Str("")) >>),
      Dict(<< Item("collected_by", Str(CrossMark \o " Not collected")) >>),
      Dict(<< Item("fully_not_applicable", Str("not tracked digitally")),
              Item("collected_by", Str("PRO")) >>),
      Dict(<< Item("fully_not_applicable", Str("")),
              Item("collected_by", Str("PRO")) >>),
      Dict(<< Item("fully_not_applicable", Str("not licensed")) >>),
      Str("n/a") }

TableRights ==
    {Dict(q) : q \in {x \in ItemSeqs(TableRightNames, TableDetails, MaxEntries) :
                        DistinctKeys(x)}}

TableRegionNodes ==
    {Dict(<< Item(AL, r) >>) : r \in TableRights}
    \cup {Dict(<< Item("producer", RightsOne), Item(WP, r) >>) : r \in TableRights}

Canonical5 == << "recording_revenues", "neighboring_rights", "performance",
                 "mechanical", "sync_fees" >>
Display5 == << "Recording Revenues", "Neighboring Rights", "Performance Rights",
               "Mechanical Rights", "Sync Fees" >>
RightsOfInterestLists == { Canonical5, Display5, << "Sync Fees", "custom_right", "mechanical" >> }

TableData(cat, node) ==
    IF Lower(cat) = "ugc"
    THEN Dict(<< Item(cat, Dict(<< Item("organic",
                Dict(<< Item("youtube", Dict(<< Item("us", node) >>)) >>)) >>)) >>)
    ELSE Dict(<< Item(cat, Dict(<< Item("organic", Dict(<< Item("us", node) >>)) >>)) >>)

InitTable ==
    /\ category \in {"interactive_dsp", "ugc"}
    /\ subcategory = "organic"
    /\ platform = IF Lower(category) = "ugc" THEN "youtube" ELSE None
    /\ region = "us"
    /\ role \in {AL, WP}
    /\ \E node \in TableRegionNodes :
          /\ ROYALTY_DATA = TableData(category, node)
          /\ file = File("json", ROYALTY_DATA)
    /\ errors = << >>
    /\ pc = "table_get"
    /\ fault = NoFault
    /\ heading = << >>
    /\ rights = EmptyDict
    /\ G = NoGraph.G /\ node_positions = << >> /\ node_colors = << >>
    /\ i = 0 /\ drawn = FALSE
    /\ usage_key = "" /\ usage_text = Str("")
    /\ master_list = << >> /\ publishing_list = << >> /\ shown = << >>
    /\ data_list = << >> /\ rights_of_interest = << >> /\ df = << >>

\* Lines 300-303: the call of get_rights_data
GetRightsData ==
    /\ pc = "table_get"
    /\ LET r == get_rights_data(ROYALTY_DATA, category, subcategory, region, platform) IN
       IF r.err # ""
       THEN Crash(r.err, IF IsUgc THEN 162 ELSE 164)
            /\ UNCHANGED << master_list, publishing_list >>
       ELSE /\ master_list' = r.master
            /\ publishing_list' = r.publishing
            /\ pc' = "table_build"
            /\ UNCHANGED fault
    /\ UNCHANGED << file, ROYALTY_DATA, errors, sel, rights, flow, texts, shown, tab >>

\* Lines 191-211: the checklist of the current role's entries.
CreateRightsTable ==
    /\ pc = "table_build"
    /\ data_list' = IF role = AL THEN master_list ELSE publishing_list
    /\ rights_of_interest' \in RightsOfInterestLists
    /\ df' = create_rights_table(data_list', rights_of_interest')
    /\ pc' = "table_done"
    /\ UNCHANGED << file, ROYALTY_DATA, errors, fault, sel, rights, flow, texts, lists >>

NextTable ==
    \/ GetRightsData
    \/ CreateRightsTable

SpecTable == InitTable /\ [][NextTable]_vars

---------------------------------------------------------------------------
(* Properties of the page script (Spec)                                    *)

\* The lines that resolve the rights path: inside get_rights_data (162 ugc,
\* 164 otherwise) and before generate_flowchart (274 ugc, 277 otherwise).
RightsPathLines == {162, 164, 274, 277}

\* C1: for every dataset and selection, resolving the rights path never
\* faults on a missing node at any depth, in either lookup and either branch;
\* the result is an empty rights node instead.
C1_ResolveNeverFaults == ~(pc = "crashed" /\ fault.line \in RightsPathLines)

\* C2: with an empty loaded dataset, one full page recompute (selectors,
\* breadcrumb, diagram, explainer, rights details) runs to completion
\* without an unhandled fault.
C2_EmptyDatasetRunCompletes ==
    (pc # "load" /\ fault.line # 15 /\ ROYALTY_DATA = EmptyDict) => pc # "crashed"

\* C3: in each of the three load-error conditions (file missing, invalid
\* JSON, root not a mapping) load_json returns the empty dataset, reports
\* exactly one error and lets no fault escape; a file that parses to a
\* mapping is returned as it is with no error reported.
C3_LoadJsonOutcome ==
    pc # "load" =>
       /\ IsLoadError(file) =>
             /\ fault.line # 15
             /\ ROYALTY_DATA = EmptyDict
             /\ pc = "category" => Len(errors) = 1
       /\ (file.kind = "json" /\ IsDict(file.root)) =>
             /\ fault.line # 15
             /\ ROYALTY_DATA = file.root
             /\ pc = "category" => errors = << >>

C3_Witness ==
    /\ pc = "category"
    /\ file.kind = "json" /\ ~IsDict(file.root)
    /\ ROYALTY_DATA = EmptyDict
    /\ errors = << NotADictMsg >>

C6_ExpectedKey ==
    CASE Lower(region) = "us" -> "us_usage_explainer_" \o role
      [] Lower(region) = "international" -> "int_usage_explainer_" \o role
      [] OTHER -> Lower(region) \o "_usage_explainer_" \o role

\* The platform node under ugc, the source node otherwise.
C6_Holder ==
    LET src == Lookup(Lookup(ROYALTY_DATA, category), subcategory) IN
    IF Lower(category) = "ugc" THEN Lookup(src, platform) ELSE src

\* C6: the usage explainer shown is the value stored under the key built
\* from region and role only ("us_usage_explainer_"+role, "int_usage_explainer_"
\* +role, or lower(region)+"_usage_explainer_"+role), looked up in the platform
\* node under ugc and in the source node otherwise; when the key is absent the
\* text is exactly "No usage explainer available.", with no other key tried.
C6_UsageExplainer ==
    /\ fault.line \notin {293, 295}
    /\ pc \in {"details", "done"} =>
          /\ usage_key = C6_ExpectedKey
          /\ usage_text = IF Has(C6_Holder, C6_ExpectedKey)
                          THEN Lookup(C6_Holder, C6_ExpectedKey)
                          ELSE Str("No usage explainer available.")
          /\ (region = "us" /\ role = "artist_label")
                => usage_key = "us_usage_explainer_artist_label"
          /\ (region = "International" /\ role = "writer_publisher")
                => usage_key = "int_usage_explainer_writer_publisher"
          /\ (region = "canada" /\ role = "artist_label")
                => usage_key = "canada_usage_explainer_artist_label"

C6_Witness ==
    /\ pc = "done"
    /\ Lower(category) = "ugc"
    /\ region = "International" /\ role = "writer_publisher"
    /\ usage_text = Str("About int_usage_explainer_writer_publisher")

---------------------------------------------------------------------------
(* Properties of create_rights_table (SpecTable)                           *)

C4_RowsInOrder ==
    /\ Len(df) = Len(rights_of_interest)
    /\ \A n \in 1..Len(df) : df[n].Rights = rights_of_interest[n]

C4_Normalized(e) == ReplaceSpaces(Lower(e.Right))

\* C4 as stated: a row r is present when some entry's right, lower-cased with
\* spaces replaced by underscores, equals r, fully_not_applicable is unset and
\* collected_by is non-empty; one row per element, in the caller's order.
C4_PresentByCanonicalName ==
    pc = "table_done" =>
       /\ C4_RowsInOrder
       /\ \A n \in 1..Len(rights_of_interest) :
             (\E m \in 1..Len(data_list) :
                 /\ C4_Normalized(data_list[m]) = rights_of_interest[n]
                 /\ data_list[m].fully_not_applicable = PyNone
                 /\ data_list[m].CollectedBy.s # "")
             => df[n].Applicable = Present

\* C4 amended: a row r is present when some entry's right, lower-cased with
\* spaces replaced by underscores and then turned into its display text by
\* friendly_text, equals r, fully_not_applicable is unset and collected_by is
\* non-empty and does not start with the cross mark; one row per element of
\* rights_of_interest, in the caller's order.
C4_PresentByDisplayName ==
    pc = "table_done" =>
       /\ C4_RowsInOrder
       /\ \A n \in 1..Len(rights_of_interest) :
             (\E m \in 1..Len(data_list) :
                 /\ friendly_text(C4_Normalized(data_list[m])) = rights_of_interest[n]
                 /\ data_list[m].fully_not_applicable = PyNone
                 /\ data_list[m].CollectedBy.s # ""
                 /\ ~StartsWithCross(data_list[m].CollectedBy.s))
             => df[n].Applicable = Present

C4_Witness ==
    /\ pc = "table_done"
    /\ rights_of_interest = Display5
    /\ \E m \in 1..Len(data_list) :
          /\ data_list[m].Right = "mechanical"
          /\ data_list[m].fully_not_applicable = PyNone
          /\ data_list[m].CollectedBy = Str("PRO")
    /\ df[4] = [Rights |-> "Mechanical Rights", Applicable |-> Present]

\* get_rights_data stores None when the field is absent; no record of the
\* datasets holds an explicit null, so a value other than None means the
\* record carries the field.
C5_Carries(e) == e.fully_not_applicable # PyNone

C5_RowOf(e, r) == C4_Normalized(e) = r \/ friendly_text(C4_Normalized(e)) = r

\* C5: a right whose record carries fully_not_applicable (whatever its value
\* and whatever collected_by holds) is marked absent in the checklist built
\* from get_rights_data's entries.
C5_NotApplicableIsAbsent ==
    pc = "table_done" =>
       \A n \in 1..Len(rights_of_interest) :
          (/\ \E m \in 1..Len(data_list) : C5_RowOf(data_list[m], rights_of_interest[n])
           /\ \A m \in 1..Len(data_list) :
                 C5_RowOf(data_list[m], rights_of_interest[n]) => C5_Carries(data_list[m]))
          => df[n].Applicable = Absent

---------------------------------------------------------------------------
(* Properties of generate_flowchart (SpecFlow)                             *)

\* details.get(name, "") of the n-th entry of the rights mapping
RawField(n, name) ==
    LET d == rights.items[n].v IN
    IF Has(d, name) THEN Lookup(d, name).s ELSE ""

RightAt(n) == rights.items[n].k
Placed == {n \in 1..Len(rights.items) : IsDict(rights.items[n].v)}
Inapplicable == {n \in Placed : Has(rights.items[n].v, "fully_not_applicable")}
Applicable == Placed \ Inapplicable

\* C7 as stated (here for a non-empty role): collector and payee are taken
\* as the record holds them, and the example yields 4 nodes and 3 edges.
C7_ChainOfRawFields ==
    (pc = "flow_drawn" /\ role # "") =>
       /\ \A n \in Applicable :
             LET collector == RawField(n, "collected_by")
                 payee == IF RawField(n, "payee") # "" THEN RawField(n, "payee") ELSE role
             IN  /\ << subcategory, RightAt(n) >> \in G.edges
                 /\ collector # "" =>
                       /\ << RightAt(n), collector >> \in G.edges
                       /\ << collector, payee >> \in G.edges
                 /\ collector = "" => << RightAt(n), payee >> \in G.edges
       /\ (/\ Len(rights.items) = 1
           /\ rights.items[1].v = Dict(<< Item("collected_by", Str("PRO")),
                                          Item("payee", Str("")) >>)
           /\ role = "artist_label")
          => Cardinality(G.nodes) = 4 /\ Cardinality(G.edges) = 3

\* C7 amended: for every applicable right, collector and payee are the
\* record's collected_by and payee with surrounding whitespace stripped; the
\* payee label is that payee if non-empty, else the current role; the graph
\* has the edge source->right, the edges right->collector->payee when the
\* collector is non-empty and the edge right->payee when it is empty (the
\* edge into the payee only when the payee label is non-empty).  One
\* applicable right with collector "PRO" and empty payee under role
\* "artist_label" gives exactly 4 nodes and 3 edges when the source, the right,
\* "PRO" and "artist_label" are four different labels.
C7_ChainOfStrippedFields ==
    pc = "flow_drawn" =>
       /\ \A n \in Applicable :
             LET collector == Strip(RawField(n, "collected_by"))
                 stripped == Strip(RawField(n, "payee"))
                 payee == IF stripped # "" THEN stripped ELSE role
             IN  /\ << subcategory, RightAt(n) >> \in G.edges
                 /\ collector # "" =>
                       /\ << RightAt(n), collector >> \in G.edges
                       /\ payee # "" => << collector, payee >> \in G.edges
                 /\ (collector = "" /\ payee # "") => << RightAt(n), payee >> \in G.edges
       /\ (/\ Len(rights.items) = 1
           /\ rights.items[1].v = Dict(<< Item("collected_by", Str("PRO")),
                                          Item("payee", Str("")) >>)
           /\ role = "artist_label"
           /\ Cardinality({subcategory, RightAt(1), "PRO", "artist_label"}) = 4)
          => /\ G.nodes = {subcategory, RightAt(1), "PRO", "artist_label"}
             /\ G.edges = { << subcategory, RightAt(1) >>, << RightAt(1), "PRO" >>,
                            << "PRO", "artist_label" >> }

C7_Witness ==
    /\ pc = "flow_drawn"
    /\ subcategory = "broadcast_radio_tv"
    /\ role = "artist_label"
    /\ rights = Dict(<< Item("mechanical",
                 Dict(<< Item("collected_by", Str("PRO")), Item("payee", Str("")) >>)) >>)
    /\ Cardinality(G.nodes) = 4 /\ Cardinality(G.edges) = 3

C8_SingleInapplicable == Len(rights.items) = 1 /\ Inapplicable = {1}

\* C8 as stated: a rights node holding a single not-applicable right yields
\* exactly 2 nodes and 1 edge, the right in the sentinel colour.
C8_SingleRightTwoNodes ==
    (pc = "flow_drawn" /\ C8_SingleInapplicable) =>
       /\ Cardinality(G.nodes) = 2
       /\ Cardinality(G.edges) = 1
       /\ node_colors[RightAt(1)] = "red"

C8_Final ==
    (pc = "flow_drawn" /\ C8_SingleInapplicable /\ RightAt(1) # subcategory) =>
       /\ G.nodes = {subcategory, RightAt(1)}
       /\ G.edges = {<< subcategory, RightAt(1) >>}
       /\ node_colors[RightAt(1)] = "red"

C8_Iteration ==
    (pc = "flow_loop" /\ i < Len(rights.items) /\ (i + 1) \in Inapplicable) =>
       /\ G'.nodes = G.nodes \cup {RightAt(i + 1)}
       /\ G'.edges = G.edges \cup {<< subcategory, RightAt(i + 1) >>}
       /\ node_colors'[RightAt(i + 1)] = "red"
       /\ \A l \in DOMAIN node_colors \ {RightAt(i + 1)} :
             node_colors'[l] = node_colors[l]

\* C8 amended: the iteration for a right whose record carries
\* fully_not_applicable colours the right node with the sentinel colour, adds
\* the edge source->right and nothing else (no collector, no payee, no edge out
\* of the right).  A rights node holding a single such right whose name differs
\* from the source label yields exactly the 2 nodes source and right and the
\* 1 edge between them.
C8_InapplicableEndsChain == []C8_Final /\ [][C8_Iteration]_vars

C8_Witness ==
    /\ pc = "flow_drawn"
    /\ C8_SingleInapplicable
    /\ RightAt(1) # subcategory
    /\ Cardinality(G.nodes) = 2 /\ Cardinality(G.edges) = 1


Collector(n) == Strip(RawField(n, "collected_by"))
Payee(n) == IF Strip(RawField(n, "payee")) # "" THEN Strip(RawField(n, "payee")) ELSE role

RightLabels == {RightAt(n) : n \in Placed}
CollectorLabels == {Collector(n) : n \in {a \in Applicable : Collector(a) # ""}}
PayeeLabels == {Payee(n) : n \in {a \in Applicable : Payee(a) # ""}}

Max(S) == CHOOSE x \in S : \A y \in S : y <= x
Min(S) == CHOOSE x \in S : \A y \in S : x <= y

\* No label is written twice: source, rights, collectors and payees are
\* different labels, and no two rights share a collector or a payee.
C9_OneRolePerLabel ==
    /\ subcategory \notin RightLabels \cup CollectorLabels \cup PayeeLabels
    /\ RightLabels \cap (CollectorLabels \cup PayeeLabels) = {}
    /\ CollectorLabels \cap PayeeLabels = {}
    /\ \A a, b \in Applicable :
          a # b => (Collector(a) # Collector(b) /\ Payee(a) # Payee(b))

C10_EveryNodeDrawable ==
    /\ ~(pc = "crashed" /\ fault.line = 142)
    /\ pc \in {"flow_loop", "flow_drawn"} =>
          /\ DOMAIN node_positions = G.nodes
          /\ DOMAIN node_colors = G.nodes
          /\ \A e \in G.edges : e[1] \in G.nodes /\ e[2] \in G.nodes

\* Two rights share the collector "PRO" and the payee, and the source label
\* is also the name of a right.
C10_Witness ==
    /\ pc = "flow_drawn"
    /\ Len(rights.items) = 2
    /\ Applicable = {1, 2}
    /\ Collector(1) = "PRO" /\ Collector(2) = "PRO"
    /\ subcategory \in RightLabels
    /\ Cardinality(G.nodes) = 4

=============================================================================
